---- MODULE Spec2Model ----
(***************************************************************************)
(* A model of three pieces of GIMP:                                        *)
(*   - libgimpconfig/gimpconfig-iface.c, the GimpConfig interface: the     *)
(*     (de)serialize wrappers, the dispatching entry points and the        *)
(*     default duplicate / equal / copy methods;                           *)
(*   - app/dialogs/action-search-dialog.c, the keyword matcher of the      *)
(*     action search dialog and the filling of its results list.           *)
(* Five specifications share the module: SpecIO (wrappers and dispatch),   *)
(* SpecProps (property based default methods), SpecSearch (the matcher),   *)
(* SpecDialog (the results list), SpecIface (the interface vtable).        *)
(***************************************************************************)
EXTENDS Integers, Sequences, FiniteSets, TLC

VARIABLES
  ioCall,          \* the last call of an entry point: function name and arguments
  ioResult,        \* what that call returned and did
  property_specs,  \* the GParamSpec list of the class of objA and objB
  objA,            \* a GimpConfig object
  objB,            \* another GimpConfig object
  propCall,        \* the last property operation: name and arguments (pre-state)
  propResult,      \* what it returned
  keyword,         \* the search keyword: NULL, or its folded tokens (key_tokens)
  label,           \* the action's label, as its folded tokens (label_tokens)
  tooltip,         \* the action's tooltip: NULL, or its folded tokens
  match,           \* the outcome of action_search_match_keyword
  gimp,            \* what the search dialog reads: action groups, actions, config
  history_actions, \* the list gimp_action_history_search returned
  results,         \* the results list: whether it is shown, and its rows, top first
  parent_iface,    \* the GimpConfigInterface vtable of the class initialised last
  n_classes,       \* the number of classes initialised so far
  config_iface,    \* the vtable of the class being initialised
  iface_step       \* how far the initialisation of config_iface has come

ioVars     == <<ioCall, ioResult>>
propVars   == <<property_specs, objA, objB, propCall, propResult>>
searchVars == <<keyword, label, tooltip, match>>
dialogVars == <<gimp, history_actions, results>>
ifaceVars  == <<parent_iface, n_classes, config_iface, iface_step>>
vars       == <<ioCall, ioResult, property_specs, objA, objB, propCall,
                propResult, keyword, label, tooltip, match, gimp,
                history_actions, results, parent_iface, n_classes, config_iface,
                iface_step>>

(***************************************************************************)
(* Bounds of the model.                                                    *)
(***************************************************************************)
NTypes   == 2   \* GTypes implementing (or not) GimpConfig
MaxData  == 1   \* values of the gpointer data argument
MaxNest  == 1   \* values of nest_level
MaxFd    == 2   \* file descriptors 0..MaxFd

NoCall   == [fn |-> "none"]
NoResult == [ret |-> "none"]

(***************************************************************************)
(* Objects.  An object records whether it implements GimpConfig, its       *)
(* GType, which interface its class carries ("default": the methods that   *)
(* gimp_config_iface_base_init installs; "custom": methods of its own) and *)
(* its property values.  For a custom interface, ret is what its boolean   *)
(* methods return and reports says whether its deserialize method emits a  *)
(* scanner error when it fails.                                            *)
(***************************************************************************)
Object(is_config, type, iface, ret, reports, props) ==
  [is_config |-> is_config, type |-> type, iface |-> iface,
   ret |-> ret, reports |-> reports, props |-> props]

GIMP_IS_CONFIG(obj) == obj.is_config

G_TYPE_FROM_INSTANCE(obj) == obj.type

\* One invocation of an interface method, as the callee sees it.
Invocation(method, args) == [method |-> method, args |-> args]

(***************************************************************************)
(* GError locations: "NULL" (no location passed), "empty" (a location      *)
(* holding NULL), "set" (a location holding an error).                     *)
(***************************************************************************)
ErrorLocs == {"NULL", "empty", "set"}

\* g_set_error on a location: sets it unless no location was passed.
SetError(error) == IF error = "empty" THEN "set" ELSE error

(***************************************************************************)
(* Files, streams and descriptors.  What the writer / scanner constructors *)
(* and gimp_config_writer_finish answer is decided by the medium.          *)
(***************************************************************************)
Files == {"NULL", "cannot_open", "fails_on_close", "good"}

\* gimp_config_writer_new_file / _gfile / _stream: NULL when the medium cannot be opened
writer_new(file) == file \in {"fails_on_close", "good"}

\* gimp_config_writer_new_fd
writer_new_fd(fd) == fd > 0

\* gimp_scanner_new_file / _gfile / _stream
scanner_new(file) == file \in {"fails_on_close", "good"}

\* gimp_config_writer_finish: FALSE when closing the medium fails
gimp_config_writer_finish(file) == file = "good"

\* the same on a descriptor: descriptor 1 accepts the writes, the others fail
gimp_config_writer_finish_fd(fd) == fd = 1

(***************************************************************************)
(* The interface methods serialize, deserialize and reset as seen through  *)
(* GIMP_CONFIG_GET_INTERFACE (config).  Their bodies live outside this     *)
(* file (gimp_config_serialize_properties, ... or a class's own code); the *)
(* object says what they answer.                                           *)
(***************************************************************************)
iface_serialize(config, writer, data) == config.ret

iface_deserialize(config, scanner, nest_level, data) == config.ret

\* what a failing deserialize method leaves in the caller's error location:
\* the scanner's message handler sets it only if the method emitted an error
deserialize_error(config, error) ==
  IF ~config.ret /\ config.reports THEN SetError(error) ELSE error

iface_reset(config) == config

\* g_return_val_if_fail: the entry point returns at once and touches nothing
Rejected(val, error) ==
  [ret |-> val, invoked |-> <<>>, error |-> error, aborted |-> FALSE]

(***************************************************************************)
(* gimp_config_serialize_to_file / _gfile / _stream / _fd                  *)
(***************************************************************************)
gimp_config_serialize_to_file(config, filename, data, error) ==
  IF ~GIMP_IS_CONFIG(config) THEN Rejected(FALSE, error)
  ELSE IF filename = "NULL" THEN Rejected(FALSE, error)
  ELSE IF ~(error = "NULL" \/ error = "empty") THEN Rejected(FALSE, error)
  ELSE IF ~writer_new(filename)
    THEN [ret |-> FALSE, invoked |-> <<>>, error |-> SetError(error),
          aborted |-> FALSE]
  ELSE LET serialized == iface_serialize(config, "writer", data)  \* result dropped
           finished   == gimp_config_writer_finish(filename)
       IN [ret |-> finished,
           invoked |-> <<Invocation("serialize", <<config, "writer", data>>)>>,
           error |-> IF finished THEN error ELSE SetError(error),
           aborted |-> FALSE]

gimp_config_serialize_to_gfile(config, file, data, error) ==
  IF ~GIMP_IS_CONFIG(config) THEN Rejected(FALSE, error)
  ELSE IF file = "NULL" THEN Rejected(FALSE, error)
  ELSE IF ~(error = "NULL" \/ error = "empty") THEN Rejected(FALSE, error)
  ELSE IF ~writer_new(file)
    THEN [ret |-> FALSE, invoked |-> <<>>, error |-> SetError(error),
          aborted |-> FALSE]
  ELSE LET serialized == iface_serialize(config, "writer", data)  \* result dropped
           finished   == gimp_config_writer_finish(file)
       IN [ret |-> finished,
           invoked |-> <<Invocation("serialize", <<config, "writer", data>>)>>,
           error |-> IF finished THEN error ELSE SetError(error),
           aborted |-> FALSE]

gimp_config_serialize_to_stream(config, output, data, error) ==
  IF ~GIMP_IS_CONFIG(config) THEN Rejected(FALSE, error)
  ELSE IF output = "NULL" THEN Rejected(FALSE, error)
  ELSE IF ~(error = "NULL" \/ error = "empty") THEN Rejected(FALSE, error)
  ELSE IF ~writer_new(output)
    THEN [ret |-> FALSE, invoked |-> <<>>, error |-> SetError(error),
          aborted |-> FALSE]
  ELSE LET serialized == iface_serialize(config, "writer", data)  \* result dropped
           finished   == gimp_config_writer_finish(output)
       IN [ret |-> finished,
           invoked |-> <<Invocation("serialize", <<config, "writer", data>>)>>,
           error |-> IF finished THEN error ELSE SetError(error),
           aborted |-> FALSE]

\* no error location: gimp_config_writer_finish (writer, NULL, NULL)
gimp_config_serialize_to_fd(config, fd, data) ==
  IF ~GIMP_IS_CONFIG(config) THEN Rejected(FALSE, "NULL")
  ELSE IF ~(fd > 0) THEN Rejected(FALSE, "NULL")
  ELSE IF ~writer_new_fd(fd) THEN Rejected(FALSE, "NULL")
  ELSE LET serialized == iface_serialize(config, "writer", data)  \* result dropped
       IN [ret |-> gimp_config_writer_finish_fd(fd),
           invoked |-> <<Invocation("serialize", <<config, "writer", data>>)>>,
           error |-> "NULL",
           aborted |-> FALSE]

(***************************************************************************)
(* gimp_config_deserialize_file / _gfile / _stream / _string               *)
(***************************************************************************)
\* the common tail: freeze, call the deserialize method, thaw, destroy the
\* scanner, g_assert (error == NULL || *error != NULL) on failure
deserialize_with_scanner(config, data, error) ==
  LET success == iface_deserialize(config, "scanner", 0, data)
      after   == deserialize_error(config, error)
      call    == Invocation("deserialize", <<config, "scanner", 0, data>>)
  IN IF ~success /\ ~(after = "NULL" \/ after = "set")
       THEN [ret |-> "none", invoked |-> <<call>>, error |-> after,
             aborted |-> TRUE]
       ELSE [ret |-> success, invoked |-> <<call>>, error |-> after,
             aborted |-> FALSE]

gimp_config_deserialize_file(config, filename, data, error) ==
  IF ~GIMP_IS_CONFIG(config) THEN Rejected(FALSE, error)
  ELSE IF filename = "NULL" THEN Rejected(FALSE, error)
  ELSE IF ~(error = "NULL" \/ error = "empty") THEN Rejected(FALSE, error)
  ELSE IF ~scanner_new(filename)
    THEN [ret |-> FALSE, invoked |-> <<>>, error |-> SetError(error),
          aborted |-> FALSE]
  ELSE deserialize_with_scanner(config, data, error)

gimp_config_deserialize_gfile(config, file, data, error) ==
  IF ~GIMP_IS_CONFIG(config) THEN Rejected(FALSE, error)
  ELSE IF file = "NULL" THEN Rejected(FALSE, error)
  ELSE IF ~(error = "NULL" \/ error = "empty") THEN Rejected(FALSE, error)
  ELSE IF ~scanner_new(file)
    THEN [ret |-> FALSE, invoked |-> <<>>, error |-> SetError(error),
          aborted |-> FALSE]
  ELSE deserialize_with_scanner(config, data, error)

gimp_config_deserialize_stream(config, input, data, error) ==
  IF ~GIMP_IS_CONFIG(config) THEN Rejected(FALSE, error)
  ELSE IF input = "NULL" THEN Rejected(FALSE, error)
  ELSE IF ~(error = "NULL" \/ error = "empty") THEN Rejected(FALSE, error)
  ELSE IF ~scanner_new(input)
    THEN [ret |-> FALSE, invoked |-> <<>>, error |-> SetError(error),
          aborted |-> FALSE]
  ELSE deserialize_with_scanner(config, data, error)

\* text is "NULL" or "text"; the scanner over a string is always created
\* and is not checked
gimp_config_deserialize_string(config, text, text_len, data, error) ==
  IF ~GIMP_IS_CONFIG(config) THEN Rejected(FALSE, error)
  ELSE IF ~(text # "NULL" \/ text_len = 0) THEN Rejected(FALSE, error)
  ELSE IF ~(error = "NULL" \/ error = "empty") THEN Rejected(FALSE, error)
  ELSE deserialize_with_scanner(config, data, error)

(***************************************************************************)
(* gimp_config_serialize, gimp_config_deserialize, gimp_config_reset       *)
(***************************************************************************)
\* mutant: the method's answer is dropped, as the serialize_to_* wrappers do
gimp_config_serialize_dropping_result(config, writer, data) ==
  IF ~GIMP_IS_CONFIG(config) THEN Rejected(FALSE, "NULL")
  ELSE [ret |-> TRUE,
        invoked |-> <<Invocation("serialize", <<config, writer, data>>)>>,
        error |-> "NULL", aborted |-> FALSE]

gimp_config_serialize(config, writer, data) ==
  IF ~GIMP_IS_CONFIG(config) THEN Rejected(FALSE, "NULL")
  ELSE [ret |-> iface_serialize(config, writer, data),
        invoked |-> <<Invocation("serialize", <<config, writer, data>>)>>,
        error |-> "NULL", aborted |-> FALSE]

gimp_config_deserialize(config, scanner, nest_level, data) ==
  IF ~GIMP_IS_CONFIG(config) THEN Rejected(FALSE, "NULL")
  ELSE [ret |-> iface_deserialize(config, scanner, nest_level, data),
        invoked |-> <<Invocation("deserialize",
                                 <<config, scanner, nest_level, data>>)>>,
        error |-> "NULL", aborted |-> FALSE]

\* returns void
gimp_config_reset(config) ==
  IF ~GIMP_IS_CONFIG(config) THEN Rejected("void", "NULL")
  ELSE [ret |-> "void", invoked |-> <<Invocation("reset", <<config>>)>>,
        error |-> "NULL", aborted |-> FALSE, config |-> iface_reset(config)]

(***************************************************************************)
(* gimp_config_deserialize_return.  A scanner holds its current token, the *)
(* tokens still ahead in its input, and the number of parse errors it      *)
(* has reported; past the end of the input every token is G_TOKEN_EOF.     *)
(***************************************************************************)
MaxInput == 2   \* tokens ahead in the scanner's input

InputTokens == {"G_TOKEN_LEFT_PAREN", "G_TOKEN_RIGHT_PAREN", "G_TOKEN_IDENTIFIER"}

ExpectedTokens == InputTokens \cup {"G_TOKEN_EOF", "G_TOKEN_NONE"}

g_scanner_peek_next_token(scanner) ==
  IF scanner.input = <<>> THEN "G_TOKEN_EOF" ELSE Head(scanner.input)

g_scanner_get_next_token(scanner) ==
  [scanner EXCEPT !.token = g_scanner_peek_next_token(scanner),
                  !.input = IF scanner.input = <<>> THEN <<>>
                            ELSE Tail(scanner.input)]

\* with is_error TRUE the report counts as a parse error of the scanner
g_scanner_unexp_token(scanner, expected_token) ==
  [scanner EXCEPT !.parse_errors = @ + 1,
                  !.reported = Append(@, [expected |-> expected_token,
                                          message  |-> "fatal parse error"])]

\* mutant: a right parenthesis ends the input at any nest_level
gimp_config_deserialize_return_any_level(scanner, expected_token, nest_level) ==
  IF scanner.is_null THEN [ret |-> FALSE, scanner |-> scanner]
  ELSE LET next_token == g_scanner_peek_next_token(scanner)
           failed == g_scanner_unexp_token(g_scanner_get_next_token(scanner),
                                           expected_token)
       IN IF expected_token # "G_TOKEN_LEFT_PAREN"
            THEN [ret |-> FALSE, scanner |-> failed]
          ELSE IF next_token = "G_TOKEN_RIGHT_PAREN"
            THEN [ret |-> TRUE, scanner |-> scanner]
          ELSE IF next_token # "G_TOKEN_EOF"
            THEN [ret |-> FALSE, scanner |-> failed]
          ELSE [ret |-> TRUE, scanner |-> scanner]

gimp_config_deserialize_return(scanner, expected_token, nest_level) ==
  IF scanner.is_null THEN [ret |-> FALSE, scanner |-> scanner]
  ELSE LET next_token == g_scanner_peek_next_token(scanner)
           failed == g_scanner_unexp_token(g_scanner_get_next_token(scanner),
                                           expected_token)
       IN IF expected_token # "G_TOKEN_LEFT_PAREN"
            THEN [ret |-> FALSE, scanner |-> failed]
          ELSE IF nest_level > 0 /\ next_token = "G_TOKEN_RIGHT_PAREN"
            THEN [ret |-> TRUE, scanner |-> scanner]
          ELSE IF next_token # "G_TOKEN_EOF"
            THEN [ret |-> FALSE, scanner |-> failed]
          ELSE [ret |-> TRUE, scanner |-> scanner]

(***************************************************************************)
(* Properties.  A GParamSpec has a set of flags and a kind: "int" for a    *)
(* plain value, "config" for an object property whose value type           *)
(* implements GimpConfig.  A value of kind "config" is a pointer: 0 is     *)
(* NULL, p > 0 is a child object whose single property holds p \div 3, so  *)
(* that pointers 1 and 2 are distinct objects with equal contents.         *)
(***************************************************************************)
MaxVal == 2   \* property values 0..MaxVal
NProps == 2   \* properties per class

Flags == {"READABLE", "WRITABLE", "CONSTRUCT_ONLY", "AGGREGATE"}

G_PARAM_READWRITE == {"READABLE", "WRITABLE"}

ParamSpecs == [flags : SUBSET Flags, kind : {"int", "config"}]

Values == 0..MaxVal

ChildType == NTypes + 1

ChildSpecs == <<[flags |-> G_PARAM_READWRITE, kind |-> "int"]>>

NullObject == Object(FALSE, ChildType, "default", FALSE, FALSE, <<>>)

\* g_value_get_object on a value of kind "config"
g_value_get_object(value) ==
  IF value = 0 THEN NullObject
  ELSE Object(TRUE, ChildType, "default", TRUE, TRUE, <<value \div 3>>)

\* g_object_class_list_properties (G_OBJECT_GET_CLASS (object))
g_object_class_list_properties(object) ==
  IF object.type = ChildType THEN ChildSpecs ELSE property_specs

\* g_param_values_cmp: values, or object pointers, compared
g_param_values_cmp(prop_spec, v1, v2) ==
  IF v1 = v2 THEN 0 ELSE IF v1 < v2 THEN -1 ELSE 1

\* g_object_newv: every property at its default except the construct ones
g_object_newv(config, construct_params) ==
  [config EXCEPT !.props =
     [i \in DOMAIN config.props |->
        IF i \in DOMAIN construct_params THEN construct_params[i] ELSE 0]]

(***************************************************************************)
(* gimp_config_sync (gimpconfig-utils.c), after the contract that          *)
(* gimp_config_copy documents: the read- and writable properties that have *)
(* all flags set and differ are copied from src to dest, construct-only    *)
(* ones are not touched; TRUE if dest was modified.                        *)
(***************************************************************************)
gimp_config_sync(src, dest, flags) ==
  LET specs == g_object_class_list_properties(src)
      mask  == flags \cup G_PARAM_READWRITE
      copied(i) == /\ mask \subseteq specs[i].flags
                   /\ g_param_values_cmp(specs[i], src.props[i], dest.props[i]) # 0
                   /\ "CONSTRUCT_ONLY" \notin specs[i].flags
  IN [ret  |-> \E i \in DOMAIN specs : copied(i),
      src  |-> src,
      dest |-> [dest EXCEPT !.props =
                  [i \in DOMAIN dest.props |->
                     IF copied(i) THEN src.props[i] ELSE dest.props[i]]]]

gimp_config_iface_copy(src, dest, flags) == gimp_config_sync(src, dest, flags)

\* GIMP_CONFIG_GET_INTERFACE (src)->copy
iface_copy(src, dest, flags) ==
  IF src.iface = "default" THEN gimp_config_iface_copy(src, dest, flags)
  ELSE [ret |-> src.ret, src |-> src, dest |-> dest]

\* mutant: the types of src and dest are not compared
gimp_config_copy_any_type(src, dest, flags) ==
  IF ~GIMP_IS_CONFIG(src) \/ ~GIMP_IS_CONFIG(dest)
    THEN [ret |-> FALSE, invoked |-> <<>>, src |-> src, dest |-> dest]
    ELSE LET changed == iface_copy(src, dest, flags)
         IN [ret |-> changed.ret,
             invoked |-> <<Invocation("copy", <<src, dest, flags>>)>>,
             src |-> changed.src, dest |-> changed.dest]

\* mutant: the copy method is handed dest as its source and src as its target
gimp_config_copy_reversed(src, dest, flags) ==
  IF \/ ~GIMP_IS_CONFIG(src)
     \/ ~GIMP_IS_CONFIG(dest)
     \/ G_TYPE_FROM_INSTANCE(src) # G_TYPE_FROM_INSTANCE(dest)
    THEN [ret |-> FALSE, invoked |-> <<>>, src |-> src, dest |-> dest]
    ELSE LET changed == iface_copy(dest, src, flags)
         IN [ret |-> changed.ret,
             invoked |-> <<Invocation("copy", <<dest, src, flags>>)>>,
             src |-> changed.dest, dest |-> changed.src]

gimp_config_copy(src, dest, flags) ==
  IF \/ ~GIMP_IS_CONFIG(src)
     \/ ~GIMP_IS_CONFIG(dest)
     \/ G_TYPE_FROM_INSTANCE(src) # G_TYPE_FROM_INSTANCE(dest)
    THEN [ret |-> FALSE, invoked |-> <<>>, src |-> src, dest |-> dest]
    ELSE LET changed == iface_copy(src, dest, flags)
         IN [ret |-> changed.ret,
             invoked |-> <<Invocation("copy", <<src, dest, flags>>)>>,
             src |-> changed.src, dest |-> changed.dest]

(***************************************************************************)
(* gimp_config_iface_equal and gimp_config_is_equal_to                     *)
(***************************************************************************)
RECURSIVE gimp_config_is_equal_to(_, _)
RECURSIVE iface_equal_loop(_, _, _, _)

\* the body of the loop  for (i = 0; equal && i < n_property_specs; i++)
iface_equal_loop(a, b, i, equal) ==
  LET specs == g_object_class_list_properties(a)
  IN IF ~(equal /\ i <= Len(specs)) THEN equal
     ELSE IF "READABLE" \notin specs[i].flags
       THEN iface_equal_loop(a, b, i + 1, equal)
     ELSE IF g_param_values_cmp(specs[i], a.props[i], b.props[i]) # 0
       THEN IF "AGGREGATE" \in specs[i].flags /\ specs[i].kind = "config"
              THEN IF ~gimp_config_is_equal_to(g_value_get_object(a.props[i]),
                                               g_value_get_object(b.props[i])).ret
                     THEN iface_equal_loop(a, b, i + 1, FALSE)
                     ELSE iface_equal_loop(a, b, i + 1, equal)
              ELSE iface_equal_loop(a, b, i + 1, FALSE)
     ELSE iface_equal_loop(a, b, i + 1, equal)

\* mutant: every property is compared by value, readable or not, aggregate or not
gimp_config_iface_equal_every_property(a, b) ==
  \A i \in DOMAIN a.props :
    g_param_values_cmp(g_object_class_list_properties(a)[i],
                       a.props[i], b.props[i]) = 0

gimp_config_iface_equal(a, b) == iface_equal_loop(a, b, 1, TRUE)

\* GIMP_CONFIG_GET_INTERFACE (a)->equal
iface_equal(a, b) ==
  IF a.iface = "default" THEN gimp_config_iface_equal(a, b) ELSE a.ret

gimp_config_is_equal_to(a, b) ==
  IF \/ ~GIMP_IS_CONFIG(a)
     \/ ~GIMP_IS_CONFIG(b)
     \/ G_TYPE_FROM_INSTANCE(a) # G_TYPE_FROM_INSTANCE(b)
    THEN [ret |-> FALSE, invoked |-> <<>>]
    ELSE [ret |-> iface_equal(a, b),
          invoked |-> <<Invocation("equal", <<a, b>>)>>]

(***************************************************************************)
(* gimp_config_iface_duplicate and gimp_config_duplicate                   *)
(***************************************************************************)
\* mutant: no construct parameter is collected
construct_params_of_nothing(config) == [i \in {} |-> 0]

\* the construct_params array: the values of the properties that are
\* readable, writable and construct-only
construct_params_of(config) ==
  LET specs == g_object_class_list_properties(config)
      chosen == {i \in DOMAIN specs :
                   /\ "READABLE" \in specs[i].flags
                   /\ "WRITABLE" \in specs[i].flags
                   /\ "CONSTRUCT_ONLY" \in specs[i].flags}
  IN [i \in chosen |-> config.props[i]]

\* answers the duplicate and, next to it, the object it was made from as
\* the call leaves it
gimp_config_iface_duplicate(config) ==
  LET dup    == g_object_newv(config, construct_params_of(config))
      copied == gimp_config_copy(config, dup, {})
  IN [dup |-> copied.dest, config |-> copied.src]

\* GIMP_CONFIG_GET_INTERFACE (config)->duplicate
iface_duplicate(config) ==
  IF config.iface = "default" THEN gimp_config_iface_duplicate(config)
  ELSE [dup |-> config, config |-> config]

gimp_config_duplicate(config) ==
  IF ~GIMP_IS_CONFIG(config)
    THEN [ret |-> "NULL", invoked |-> <<>>, config |-> config]
    ELSE LET made == iface_duplicate(config)
         IN [ret |-> made.dup,
             invoked |-> <<Invocation("duplicate", <<config>>)>>,
             config |-> made.config]

(***************************************************************************)
(* The action search.  A text is held as the tokens g_str_tokenize_and_fold *)
(* cuts it into; a token is a non-empty sequence of letters.  Two letters   *)
(* are enough to tell the cases apart: "a" is ASCII, "aacute" is not and    *)
(* g_str_to_ascii turns it into "a".                                        *)
(***************************************************************************)
MaxTokens    == 2   \* tokens per text
MaxTextChars == 3   \* letters per label or tooltip, over all its tokens
MaxKeyChars  == 4   \* letters per keyword, over all its tokens

Letters == {"a", "aacute"}

g_str_is_ascii(token) == \A k \in DOMAIN token : token[k] = "a"

g_str_to_ascii(token) == [k \in DOMAIN token |-> "a"]

RECURSIVE ascii_alternates(_)
\* the ascii_alternates that g_str_tokenize_and_fold hands back: one entry
\* for each token that is not ASCII, in the order of the tokens
ascii_alternates(tokens) ==
  IF tokens = <<>> THEN <<>>
  ELSE IF g_str_is_ascii(Head(tokens)) THEN ascii_alternates(Tail(tokens))
  ELSE <<g_str_to_ascii(Head(tokens))>> \o ascii_alternates(Tail(tokens))

g_str_has_prefix(str, prefix) ==
  Len(prefix) <= Len(str) /\ SubSeq(str, 1, Len(prefix)) = prefix

\* the value j holds after  for (j = 0; tokens[j] != NULL; j++)  that leaves
\* at the first token with the prefix: its index, or the length if there is none
first_with_prefix(tokens, key) ==
  LET hits == {j \in 0..(Len(tokens) - 1) : g_str_has_prefix(tokens[j + 1], key)}
  IN IF hits = {} THEN Len(tokens)
     ELSE CHOOSE j \in hits : \A k \in hits : j <= k

has_prefix_in(tokens, key) == first_with_prefix(tokens, key) < Len(tokens)

\* mutant: the alternates are not tried
initials_matched_label_only(key_tokens, label_tokens, label_alternates) ==
  /\ Len(key_tokens) = 1
  /\ Len(key_tokens[1]) = 2
  /\ Len(label_tokens) > 1
  /\ label_tokens[1][1] = key_tokens[1][1]
  /\ label_tokens[2][1] = key_tokens[1][2]

\* the two-letter rule: one key token of two characters that are the first
\* letters of the first two label tokens, or of the first two alternates
initials_matched(key_tokens, label_tokens, label_alternates) ==
  /\ Len(key_tokens) = 1
  /\ Len(key_tokens[1]) = 2
  /\ LET c1 == key_tokens[1][1]
         c2 == key_tokens[1][2]
     IN \/ /\ Len(label_tokens) > 1
           /\ label_tokens[1][1] = c1
           /\ label_tokens[2][1] = c2
        \/ /\ Len(label_alternates) > 1
           /\ label_alternates[1][1] = c1
           /\ label_alternates[2][1] = c2

RECURSIVE label_loop(_, _, _, _, _)
\* the loop over the key tokens against the label; st carries matched,
\* match_start, match_ordered and previous_matched; i counts from 0
label_loop(key_tokens, label_tokens, label_alternates, i, st) ==
  IF i >= Len(key_tokens) THEN st
  ELSE LET key      == key_tokens[i + 1]
           in_label == has_prefix_in(label_tokens, key)
           in_alt   == has_prefix_in(label_alternates, key)
           j == IF in_label THEN first_with_prefix(label_tokens, key)
                ELSE first_with_prefix(label_alternates, key)
       IN label_loop(key_tokens, label_tokens, label_alternates, i + 1,
            [matched          |-> st.matched /\ (in_label \/ in_alt),
             match_ordered    |-> st.match_ordered /\ ~(st.previous_matched > j),
             previous_matched |-> j,
             match_start      |-> st.match_start /\ i = j])

RECURSIVE tooltip_loop_no_mixed(_, _, _, _, _, _, _)
\* mutant: a key token found in the label only does not set mixed_match
tooltip_loop_no_mixed(key_tokens, tooltip_tokens, tooltip_alternates, label_tokens, label_alternates, i, st) ==
  IF i >= Len(key_tokens) THEN st
  ELSE LET key        == key_tokens[i + 1]
           in_tooltip == \/ has_prefix_in(tooltip_tokens, key)
                         \/ has_prefix_in(tooltip_alternates, key)
           in_label   == \/ has_prefix_in(label_tokens, key)
                         \/ has_prefix_in(label_alternates, key)
       IN tooltip_loop_no_mixed(key_tokens, tooltip_tokens, tooltip_alternates,
                                label_tokens, label_alternates, i + 1,
            [matched     |-> st.matched /\ (in_tooltip \/ in_label),
             mixed_match |-> st.mixed_match])

RECURSIVE tooltip_loop(_, _, _, _, _, _, _)
\* the loop over the key tokens against the tooltip, then the label; st
\* carries matched and mixed_match
tooltip_loop(key_tokens, tooltip_tokens, tooltip_alternates, label_tokens, label_alternates, i, st) ==
  IF i >= Len(key_tokens) THEN st
  ELSE LET key        == key_tokens[i + 1]
           in_tooltip == \/ has_prefix_in(tooltip_tokens, key)
                         \/ has_prefix_in(tooltip_alternates, key)
           in_label   == \/ has_prefix_in(label_tokens, key)
                         \/ has_prefix_in(label_alternates, key)
       IN tooltip_loop(key_tokens, tooltip_tokens, tooltip_alternates,
                       label_tokens, label_alternates, i + 1,
            [matched     |-> st.matched /\ (in_tooltip \/ in_label),
             mixed_match |-> st.mixed_match \/ (~in_tooltip /\ in_label)])

\* mutant: a NULL keyword is answered without writing the section
null_keyword_match_no_section(section_given) ==
  [matched |-> TRUE, section |-> -1,
   tooltip_used |-> FALSE, section_given |-> section_given]

\* the special exception of a NULL keyword: any action matches, in section 0
null_keyword_match(section_given) ==
  [matched |-> TRUE, section |-> IF section_given THEN 0 ELSE -1,
   tooltip_used |-> FALSE, section_given |-> section_given]

\* section is -1 while nothing was written to the caller's location;
\* section_given says whether the caller passed a location at all
action_search_match_keyword(action_label, action_tooltip, kw, section_given) ==
  IF kw.is_null
    THEN null_keyword_match(section_given)
  ELSE
    LET key_tokens       == kw.tokens
        label_tokens     == action_label
        label_alternates == ascii_alternates(label_tokens)
        initials == initials_matched(key_tokens, label_tokens, label_alternates)
        s1 == [matched |-> initials,
               section |-> IF initials /\ section_given THEN 1 ELSE -1]
        by_label == label_loop(key_tokens, label_tokens, label_alternates, 0,
                      [matched |-> TRUE, match_start |-> TRUE,
                       match_ordered |-> TRUE, previous_matched |-> -1])
        s2 == IF ~s1.matched /\ Len(label_tokens) > 0
                THEN [matched |-> by_label.matched,
                      section |-> IF by_label.matched /\ section_given
                                    THEN IF by_label.match_ordered
                                           THEN IF by_label.match_start THEN 1 ELSE 2
                                           ELSE 3
                                    ELSE s1.section]
                ELSE s1
        try_tooltip == /\ ~s2.matched
                       /\ Len(key_tokens) > 0
                       /\ Len(key_tokens[1]) > 2
                       /\ ~action_tooltip.is_null
        tooltip_tokens     == action_tooltip.tokens
        tooltip_alternates == ascii_alternates(tooltip_tokens)
        by_tooltip == tooltip_loop(key_tokens, tooltip_tokens, tooltip_alternates,
                                   label_tokens, label_alternates, 0,
                                   [matched |-> TRUE, mixed_match |-> FALSE])
        s3 == IF try_tooltip /\ Len(tooltip_tokens) > 0
                THEN [matched |-> by_tooltip.matched,
                      section |-> IF by_tooltip.matched /\ section_given
                                    THEN IF by_tooltip.mixed_match THEN 5 ELSE 4
                                    ELSE s2.section]
                ELSE s2
    IN [matched |-> s3.matched, section |-> s3.section,
        tooltip_used |-> try_tooltip /\ Len(tooltip_tokens) > 0,
        section_given |-> section_given]

(***************************************************************************)
(* SpecIO: the entry points called on objects with an interface of their   *)
(* own, over every medium and error location.                              *)
(***************************************************************************)
IOConfigs ==
  {Object(c, t, "custom", r, e, <<>>) :
     c \in BOOLEAN, t \in 1..NTypes, r \in BOOLEAN, e \in BOOLEAN}

PropsIdle ==
  /\ property_specs = <<>>
  /\ objA = NullObject
  /\ objB = NullObject
  /\ propCall = NoCall
  /\ propResult = NoResult

SearchIdle ==
  /\ keyword = [is_null |-> TRUE, tokens |-> <<>>]
  /\ label = <<>>
  /\ tooltip = [is_null |-> TRUE, tokens |-> <<>>]
  /\ match = NoResult

DialogIdle ==
  /\ gimp = [groups |-> <<>>]
  /\ history_actions = <<>>
  /\ results = [shown |-> FALSE, rows |-> <<>>]

(***************************************************************************)
(* The GimpConfigInterface vtable.  A method pointer is NULL, one of the   *)
(* gimp_config_iface_* defaults, or a function of the class that           *)
(* installed it ("class1", "class2", ...).                                 *)
(***************************************************************************)
MaxClasses == 2   \* classes initialised one after the other

Methods == {"serialize", "deserialize", "duplicate", "equal", "reset", "copy"}

PropertyMethods == {"serialize_property", "deserialize_property"}

Defaults ==
  [serialize   |-> "gimp_config_iface_serialize",
   deserialize |-> "gimp_config_iface_deserialize",
   duplicate   |-> "gimp_config_iface_duplicate",
   equal       |-> "gimp_config_iface_equal",
   reset       |-> "gimp_config_iface_reset",
   copy        |-> "gimp_config_iface_copy"]

\* the name under which the functions of the n-th class go
ClassNames == <<"class1", "class2", "class3", "class4">>

\* a zeroed vtable
NullVTable == [method \in Methods \cup PropertyMethods |-> "NULL"]

\* mutant: the property methods are left as they came
gimp_config_iface_base_init_keeping_properties(iface) ==
  [method \in Methods \cup PropertyMethods |->
     IF method \in Methods /\ iface["serialize"] = "NULL"
       THEN Defaults[method]
       ELSE iface[method]]

gimp_config_iface_base_init(iface) ==
  [method \in Methods \cup PropertyMethods |->
     IF method \in PropertyMethods THEN "NULL"
     ELSE IF iface["serialize"] = "NULL" THEN Defaults[method]
     ELSE iface[method]]

IfaceIdle ==
  /\ parent_iface = NullVTable
  /\ n_classes = 0
  /\ config_iface = NullVTable
  /\ iface_step = "idle"

InitIO ==
  /\ ioCall = NoCall
  /\ ioResult = NoResult
  /\ PropsIdle
  /\ SearchIdle
  /\ DialogIdle
  /\ IfaceIdle

IOIdle == ioCall.fn = "none"

SerializeToFile ==
  /\ IOIdle
  /\ \E config \in IOConfigs, file \in Files, data \in 0..MaxData,
        error \in ErrorLocs :
       /\ ioCall' = [fn |-> "gimp_config_serialize_to_file", config |-> config,
                     file |-> file, data |-> data, error |-> error]
       /\ ioResult' = gimp_config_serialize_to_file(config, file, data, error)
  /\ UNCHANGED <<propVars, searchVars, dialogVars, ifaceVars>>

SerializeToGFile ==
  /\ IOIdle
  /\ \E config \in IOConfigs, file \in Files, data \in 0..MaxData,
        error \in ErrorLocs :
       /\ ioCall' = [fn |-> "gimp_config_serialize_to_gfile", config |-> config,
                     file |-> file, data |-> data, error |-> error]
       /\ ioResult' = gimp_config_serialize_to_gfile(config, file, data, error)
  /\ UNCHANGED <<propVars, searchVars, dialogVars, ifaceVars>>

SerializeToStream ==
  /\ IOIdle
  /\ \E config \in IOConfigs, file \in Files, data \in 0..MaxData,
        error \in ErrorLocs :
       /\ ioCall' = [fn |-> "gimp_config_serialize_to_stream", config |-> config,
                     file |-> file, data |-> data, error |-> error]
       /\ ioResult' = gimp_config_serialize_to_stream(config, file, data, error)
  /\ UNCHANGED <<propVars, searchVars, dialogVars, ifaceVars>>

SerializeToFd ==
  /\ IOIdle
  /\ \E config \in IOConfigs, fd \in 0..MaxFd, data \in 0..MaxData :
       /\ ioCall' = [fn |-> "gimp_config_serialize_to_fd", config |-> config,
                     fd |-> fd, data |-> data]
       /\ ioResult' = gimp_config_serialize_to_fd(config, fd, data)
  /\ UNCHANGED <<propVars, searchVars, dialogVars, ifaceVars>>

DeserializeFile ==
  /\ IOIdle
  /\ \E config \in IOConfigs, file \in Files, data \in 0..MaxData,
        error \in ErrorLocs :
       /\ ioCall' = [fn |-> "gimp_config_deserialize_file", config |-> config,
                     file |-> file, data |-> data, error |-> error]
       /\ ioResult' = gimp_config_deserialize_file(config, file, data, error)
  /\ UNCHANGED <<propVars, searchVars, dialogVars, ifaceVars>>

DeserializeGFile ==
  /\ IOIdle
  /\ \E config \in IOConfigs, file \in Files, data \in 0..MaxData,
        error \in ErrorLocs :
       /\ ioCall' = [fn |-> "gimp_config_deserialize_gfile", config |-> config,
                     file |-> file, data |-> data, error |-> error]
       /\ ioResult' = gimp_config_deserialize_gfile(config, file, data, error)
  /\ UNCHANGED <<propVars, searchVars, dialogVars, ifaceVars>>

DeserializeStream ==
  /\ IOIdle
  /\ \E config \in IOConfigs, file \in Files, data \in 0..MaxData,
        error \in ErrorLocs :
       /\ ioCall' = [fn |-> "gimp_config_deserialize_stream", config |-> config,
                     file |-> file, data |-> data, error |-> error]
       /\ ioResult' = gimp_config_deserialize_stream(config, file, data, error)
  /\ UNCHANGED <<propVars, searchVars, dialogVars, ifaceVars>>

DeserializeString ==
  /\ IOIdle
  /\ \E config \in IOConfigs, text \in {"NULL", "text"}, text_len \in {-1, 0, 1},
        data \in 0..MaxData, error \in ErrorLocs :
       /\ ioCall' = [fn |-> "gimp_config_deserialize_string", config |-> config,
                     text |-> text, text_len |-> text_len, data |-> data,
                     error |-> error]
       /\ ioResult' = gimp_config_deserialize_string(config, text, text_len,
                                                     data, error)
  /\ UNCHANGED <<propVars, searchVars, dialogVars, ifaceVars>>

Serialize ==
  /\ IOIdle
  /\ \E config \in IOConfigs, data \in 0..MaxData :
       /\ ioCall' = [fn |-> "gimp_config_serialize", config |-> config,
                     data |-> data]
       /\ ioResult' = gimp_config_serialize(config, "writer", data)
  /\ UNCHANGED <<propVars, searchVars, dialogVars, ifaceVars>>

Deserialize ==
  /\ IOIdle
  /\ \E config \in IOConfigs, nest_level \in 0..MaxNest, data \in 0..MaxData :
       /\ ioCall' = [fn |-> "gimp_config_deserialize", config |-> config,
                     nest_level |-> nest_level, data |-> data]
       /\ ioResult' = gimp_config_deserialize(config, "scanner", nest_level, data)
  /\ UNCHANGED <<propVars, searchVars, dialogVars, ifaceVars>>

Reset ==
  /\ IOIdle
  /\ \E config \in IOConfigs :
       /\ ioCall' = [fn |-> "gimp_config_reset", config |-> config]
       /\ ioResult' = gimp_config_reset(config)
  /\ UNCHANGED <<propVars, searchVars, dialogVars, ifaceVars>>

Duplicate ==
  /\ IOIdle
  /\ \E config \in IOConfigs :
       /\ ioCall' = [fn |-> "gimp_config_duplicate", config |-> config]
       /\ ioResult' = gimp_config_duplicate(config)
  /\ UNCHANGED <<propVars, searchVars, dialogVars, ifaceVars>>

IsEqualTo ==
  /\ IOIdle
  /\ \E a \in IOConfigs, b \in IOConfigs :
       /\ ioCall' = [fn |-> "gimp_config_is_equal_to", a |-> a, b |-> b]
       /\ ioResult' = gimp_config_is_equal_to(a, b)
  /\ UNCHANGED <<propVars, searchVars, dialogVars, ifaceVars>>

Copy ==
  /\ IOIdle
  /\ \E src \in IOConfigs, dest \in IOConfigs, flags \in SUBSET Flags :
       /\ ioCall' = [fn |-> "gimp_config_copy", src |-> src, dest |-> dest,
                     flags |-> flags]
       /\ ioResult' = gimp_config_copy(src, dest, flags)
  /\ UNCHANGED <<propVars, searchVars, dialogVars, ifaceVars>>

\* the caller takes the result; the next call may follow
\* the scanners a deserialize method can hand over: NULL, or one that has
\* read some token and has up to MaxInput tokens ahead
Scanners ==
  {[is_null |-> n, token |-> t, input |-> i, parse_errors |-> 0, reported |-> <<>>] :
     n \in BOOLEAN, t \in InputTokens \cup {"G_TOKEN_NONE"},
     i \in UNION {[1..k -> InputTokens] : k \in 0..MaxInput}}

DeserializeReturn ==
  /\ IOIdle
  /\ \E scanner \in Scanners, expected_token \in ExpectedTokens,
        nest_level \in 0..MaxNest :
       /\ ioCall' = [fn |-> "gimp_config_deserialize_return", scanner |-> scanner,
                     expected_token |-> expected_token, nest_level |-> nest_level]
       /\ ioResult' = gimp_config_deserialize_return(scanner, expected_token,
                                                     nest_level)
  /\ UNCHANGED <<propVars, searchVars, dialogVars, ifaceVars>>

Return ==
  /\ ~IOIdle
  /\ ~(ioCall.fn \in {"gimp_config_deserialize_file", "gimp_config_deserialize_gfile",
                      "gimp_config_deserialize_stream", "gimp_config_deserialize_string"}
       /\ ioResult.aborted)
  /\ ioCall' = NoCall
  /\ ioResult' = NoResult
  /\ UNCHANGED <<propVars, searchVars, dialogVars, ifaceVars>>

NextIO ==
  \/ SerializeToFile
  \/ SerializeToGFile
  \/ SerializeToStream
  \/ SerializeToFd
  \/ DeserializeFile
  \/ DeserializeGFile
  \/ DeserializeStream
  \/ DeserializeString
  \/ Serialize
  \/ Deserialize
  \/ Reset
  \/ Duplicate
  \/ IsEqualTo
  \/ Copy
  \/ DeserializeReturn
  \/ Return

SpecIO == InitIO /\ [][NextIO]_vars

(***************************************************************************)
(* Properties of the wrappers and of the dispatch (SpecIO).                *)
(***************************************************************************)
SerializeToFns ==
  {"gimp_config_serialize_to_file", "gimp_config_serialize_to_gfile",
   "gimp_config_serialize_to_stream", "gimp_config_serialize_to_fd"}

DeserializeFns ==
  {"gimp_config_deserialize_file", "gimp_config_deserialize_gfile",
   "gimp_config_deserialize_stream", "gimp_config_deserialize_string"}

\* the three steps of a serialize_to_* call, as the arguments decide them
WriterCreated ==
  IF ioCall.fn = "gimp_config_serialize_to_fd"
    THEN ioCall.fd > 0
    ELSE ioCall.file \in {"fails_on_close", "good"}

SerializeReported == ioCall.config.ret

WriterFinished ==
  IF ioCall.fn = "gimp_config_serialize_to_fd"
    THEN ioCall.fd = 1
    ELSE ioCall.file = "good"

\* a serialize_to_* call on a valid config with an empty (or no) error location
ValidSerializeCall ==
  /\ ioCall.fn \in SerializeToFns
  /\ ioCall.config.is_config
  /\ ioCall.fn # "gimp_config_serialize_to_fd" => ioCall.error # "set"

\* C1: gimp_config_serialize_to_file, _gfile, _stream and _fd return TRUE
\* exactly when the writer was created, the serialize method reported
\* success and finishing the writer succeeded; FALSE when any step failed.
C1_SerializeToReturnsSuccess ==
  ValidSerializeCall =>
    (ioResult.ret = (WriterCreated /\ SerializeReported /\ WriterFinished))

\* a deserialize_* call on a valid config, a valid source and an error
\* location that is empty on entry
ValidDeserializeCall ==
  /\ ioCall.fn \in DeserializeFns
  /\ ioCall.config.is_config
  /\ ioCall.error = "empty"
  /\ IF ioCall.fn = "gimp_config_deserialize_string"
       THEN ioCall.text # "NULL" \/ ioCall.text_len = 0
       ELSE ioCall.file # "NULL"

\* C2: a failed gimp_config_deserialize_file, _gfile, _stream or _string
\* leaves *error set: the assertion after the deserialize method never
\* fails, whatever the method does, and a FALSE return comes with an error.
C2_FailedDeserializeSetsError ==
  ValidDeserializeCall =>
    /\ ~ioResult.aborted
    /\ (ioResult.ret = FALSE => ioResult.error = "set")

DispatchFns ==
  {"gimp_config_serialize", "gimp_config_deserialize", "gimp_config_duplicate",
   "gimp_config_is_equal_to", "gimp_config_reset", "gimp_config_copy"}

\* the method an entry point stands for, and the arguments it must hand over
ExpectedInvocation ==
  CASE ioCall.fn = "gimp_config_serialize" ->
         Invocation("serialize", <<ioCall.config, "writer", ioCall.data>>)
    [] ioCall.fn = "gimp_config_deserialize" ->
         Invocation("deserialize",
                    <<ioCall.config, "scanner", ioCall.nest_level, ioCall.data>>)
    [] ioCall.fn = "gimp_config_duplicate" ->
         Invocation("duplicate", <<ioCall.config>>)
    [] ioCall.fn = "gimp_config_reset" ->
         Invocation("reset", <<ioCall.config>>)
    [] ioCall.fn = "gimp_config_is_equal_to" ->
         Invocation("equal", <<ioCall.a, ioCall.b>>)
    [] ioCall.fn = "gimp_config_copy" ->
         Invocation("copy", <<ioCall.src, ioCall.dest, ioCall.flags>>)

\* the object whose interface is used
Receiver ==
  CASE ioCall.fn = "gimp_config_is_equal_to" -> ioCall.a
    [] ioCall.fn = "gimp_config_copy" -> ioCall.src
    [] OTHER -> ioCall.config

\* the entry point handed the method's result back (reset returns nothing,
\* a custom duplicate answers the object itself)
ReturnsMethodResult ==
  CASE ioCall.fn = "gimp_config_reset" -> ioResult.ret = "void"
    [] ioCall.fn = "gimp_config_duplicate" -> ioResult.ret = Receiver
    [] OTHER -> ioResult.ret = Receiver.ret

\* nothing was invoked and FALSE (NULL for duplicate) came back
ReturnsRejection ==
  /\ ioResult.invoked = <<>>
  /\ CASE ioCall.fn = "gimp_config_reset" -> ioResult.ret = "void"
       [] ioCall.fn = "gimp_config_duplicate" -> ioResult.ret = "NULL"
       [] OTHER -> ioResult.ret = FALSE

\* every object argument is a GimpConfig
ArgsAreConfigs ==
  CASE ioCall.fn = "gimp_config_is_equal_to" ->
         ioCall.a.is_config /\ ioCall.b.is_config
    [] ioCall.fn = "gimp_config_copy" ->
         ioCall.src.is_config /\ ioCall.dest.is_config
    [] OTHER -> ioCall.config.is_config

\* the two objects of is_equal_to and copy have one type
ArgsOfOneType ==
  CASE ioCall.fn = "gimp_config_is_equal_to" -> ioCall.a.type = ioCall.b.type
    [] ioCall.fn = "gimp_config_copy" -> ioCall.src.type = ioCall.dest.type
    [] OTHER -> TRUE

\* C7 as stated: on GimpConfig arguments each entry point invokes its method
\* exactly once with the caller's arguments and returns its result; on
\* anything else it invokes nothing and returns FALSE (NULL).
C7_Original_DispatchOnValidConfig ==
  ioCall.fn \in DispatchFns =>
    IF ArgsAreConfigs
      THEN ioResult.invoked = <<ExpectedInvocation>> /\ ReturnsMethodResult
      ELSE ReturnsRejection

\* C7, amended: the same, except that gimp_config_is_equal_to and
\* gimp_config_copy dispatch only when their two objects also have the same
\* type, and otherwise invoke nothing and return FALSE.
C7_ThinDispatch ==
  ioCall.fn \in DispatchFns =>
    IF ArgsAreConfigs /\ ArgsOfOneType
      THEN ioResult.invoked = <<ExpectedInvocation>> /\ ReturnsMethodResult
      ELSE ReturnsRejection

\* a binary entry point dispatched on two objects of one type whose methods
\* answer differently
C7_Witness ==
  /\ ioCall.fn \in {"gimp_config_is_equal_to", "gimp_config_copy"}
  /\ ArgsAreConfigs /\ ArgsOfOneType
  /\ Len(ioResult.invoked) = 1
  /\ IF ioCall.fn = "gimp_config_copy"
       THEN ioCall.src.ret # ioCall.dest.ret /\ ioResult.ret = ioCall.src.ret
       ELSE ioCall.a.ret # ioCall.b.ret /\ ioResult.ret = ioCall.a.ret

\* the call of gimp_config_deserialize_return on a scanner
ReturnCall == ioCall.fn = "gimp_config_deserialize_return" /\ ~ioCall.scanner.is_null

\* the input is at its end, or at a right parenthesis inside a nested list
AtEnd ==
  LET next_token == IF ioCall.scanner.input = <<>> THEN "G_TOKEN_EOF"
                    ELSE ioCall.scanner.input[1]
  IN \/ next_token = "G_TOKEN_EOF"
     \/ ioCall.nest_level > 0 /\ next_token = "G_TOKEN_RIGHT_PAREN"

\* C14: gimp_config_deserialize_return returns TRUE exactly when
\* expected_token is G_TOKEN_LEFT_PAREN and the next token is G_TOKEN_EOF
\* or, with nest_level > 0, G_TOKEN_RIGHT_PAREN, and then leaves the scanner
\* as it was; in every other case it returns FALSE, the next token has become
\* the scanner's current token and is no longer ahead, and one fatal parse
\* error for expected_token has been reported.
C14_DeserializeReturn ==
  ReturnCall =>
    IF ioCall.expected_token = "G_TOKEN_LEFT_PAREN" /\ AtEnd
      THEN /\ ioResult.ret = TRUE
           /\ ioResult.scanner = ioCall.scanner
      ELSE /\ ioResult.ret = FALSE
           /\ ioResult.scanner.token =
                (IF ioCall.scanner.input = <<>> THEN "G_TOKEN_EOF"
                 ELSE ioCall.scanner.input[1])
           /\ ioResult.scanner.input =
                (IF ioCall.scanner.input = <<>> THEN <<>>
                 ELSE Tail(ioCall.scanner.input))
           /\ ioResult.scanner.parse_errors = ioCall.scanner.parse_errors + 1
           /\ ioResult.scanner.reported =
                <<[expected |-> ioCall.expected_token,
                   message  |-> "fatal parse error"]>>

\* a right parenthesis ahead, expected_token G_TOKEN_LEFT_PAREN: accepted
\* inside a nested list
C14_Witness ==
  /\ ReturnCall
  /\ ioCall.expected_token = "G_TOKEN_LEFT_PAREN"
  /\ ioCall.nest_level > 0
  /\ ioCall.scanner.input # <<>>
  /\ ioCall.scanner.input[1] = "G_TOKEN_RIGHT_PAREN"
  /\ ioResult.ret = TRUE
  /\ ioResult.scanner = ioCall.scanner

\* the same right parenthesis at nest_level 0: refused, consumed and reported
C14_WitnessRefused ==
  /\ ReturnCall
  /\ ioCall.expected_token = "G_TOKEN_LEFT_PAREN"
  /\ ioCall.nest_level = 0
  /\ Len(ioCall.scanner.input) = 2
  /\ ioCall.scanner.input[1] = "G_TOKEN_RIGHT_PAREN"
  /\ ioResult.ret = FALSE
  /\ Len(ioResult.scanner.input) = 1
  /\ ioResult.scanner.parse_errors = 1

(***************************************************************************)
(* SpecSearch: action_search_match_keyword on every keyword, label and     *)
(* tooltip within the bounds.                                              *)
(***************************************************************************)
TokensUpTo(n) == UNION {[1..k -> Letters] : k \in 1..n}

\* the texts of at most MaxTokens tokens and at most n letters
Texts(n) ==
  {t \in UNION {[1..k -> TokensUpTo(n)] : k \in 0..MaxTokens} :
     LET RECURSIVE chars(_)
         chars(m) == IF m = 0 THEN 0 ELSE Len(t[m]) + chars(m - 1)
     IN chars(Len(t)) <= n}

IOIdleVars ==
  /\ ioCall = NoCall
  /\ ioResult = NoResult

InitSearch ==
  /\ keyword \in {[is_null |-> TRUE, tokens |-> <<>>]}
                 \cup {[is_null |-> FALSE, tokens |-> t] : t \in Texts(MaxKeyChars)}
  /\ label \in Texts(MaxTextChars)
  /\ tooltip \in {[is_null |-> TRUE, tokens |-> <<>>]}
                 \cup {[is_null |-> FALSE, tokens |-> t] : t \in Texts(MaxTextChars)}
  /\ match = NoResult
  /\ IOIdleVars
  /\ PropsIdle
  /\ DialogIdle
  /\ IfaceIdle

MatchKeyword ==
  /\ match = NoResult
  /\ \E section_given \in BOOLEAN :
       match' = action_search_match_keyword(label, tooltip, keyword, section_given)
  /\ UNCHANGED <<keyword, label, tooltip, ioVars, propVars, dialogVars,
               ifaceVars>>

NextSearch == MatchKeyword

SpecSearch == InitSearch /\ [][NextSearch]_vars

(***************************************************************************)
(* Properties of action_search_match_keyword (SpecSearch).                 *)
(***************************************************************************)
Matched == match # NoResult

\* key is a prefix of the token or of its ASCII alternate
TokenHasPrefix(token, key) ==
  \/ g_str_has_prefix(token, key)
  \/ ~g_str_is_ascii(token) /\ g_str_has_prefix(g_str_to_ascii(token), key)

\* key is a prefix of some token of the text, or of some alternate of it
FoundIn(text, key) == \E j \in 1..Len(text) : TokenHasPrefix(text[j], key)

AllKeysInLabel == \A i \in 1..Len(keyword.tokens) : FoundIn(label, keyword.tokens[i])

\* the two-letter rule applies: a single key token of two characters that
\* begin the first two label tokens, or the first two alternates
InitialsRule ==
  /\ Len(keyword.tokens) = 1
  /\ Len(keyword.tokens[1]) = 2
  /\ \E texts \in {label, ascii_alternates(label)} :
       /\ Len(texts) >= 2
       /\ texts[1][1] = keyword.tokens[1][1]
       /\ texts[2][1] = keyword.tokens[1][2]

\* the i-th key token matches the i-th label token, for every i
KeyIsLabelStart ==
  \A i \in 1..Len(keyword.tokens) :
    i <= Len(label) /\ TokenHasPrefix(label[i], keyword.tokens[i])

\* the key tokens are found in the label in their own order
KeyInLabelOrder ==
  \E f \in [1..Len(keyword.tokens) -> 1..Len(label)] :
    /\ \A i \in 1..Len(keyword.tokens) : TokenHasPrefix(label[f[i]], keyword.tokens[i])
    /\ \A i, k \in 1..Len(keyword.tokens) : i < k => f[i] <= f[k]

\* C8: ordered-prefix matching.  For a keyword that the two-letter rule did
\* not match and a label with a token, the action matches on its label iff
\* every key token is a prefix of a label token or alternate; the section is
\* 1 when the key is the label start, 2 when the key tokens come in the
\* label's order but not at its start, 3 when they come in another order.
C8_OrderedPrefixSections ==
  (Matched /\ ~keyword.is_null /\ ~InitialsRule /\ Len(label) > 0
     /\ match.section_given) =>
    /\ (match.matched /\ match.section \in {1, 2, 3}) <=> AllKeysInLabel
    /\ AllKeysInLabel =>
         match.section = IF KeyIsLabelStart THEN 1
                         ELSE IF KeyInLabelOrder THEN 2 ELSE 3

\* C9: two-letter initials.  A single key token of two characters that begin
\* the first and second label token (or alternate) matches with section 1;
\* when the initials do not match, the key is still tried as a prefix of the
\* label tokens and alternates.
C9_TwoLetterInitials ==
  (Matched /\ ~keyword.is_null /\ Len(keyword.tokens) = 1
     /\ Len(keyword.tokens[1]) = 2) =>
    IF InitialsRule
      THEN match.matched /\ (match.section_given => match.section = 1)
      ELSE /\ match.matched <=> FoundIn(label, keyword.tokens[1])
           /\ (match.matched /\ match.section_given) => match.section \in {1, 2}

\* the initials of two label tokens matched a key that is a prefix of no
\* label token or alternate
C9_Witness ==
  /\ Matched /\ ~keyword.is_null
  /\ InitialsRule
  /\ ~FoundIn(label, keyword.tokens[1])
  /\ match.matched /\ match.section = 1

\* a two-letter key whose initials do not match, found as a prefix instead
C9_WitnessPrefix ==
  /\ Matched /\ ~keyword.is_null
  /\ Len(keyword.tokens) = 1 /\ Len(keyword.tokens[1]) = 2
  /\ ~InitialsRule
  /\ match.matched /\ match.section = 2

LabelMatched == InitialsRule \/ (Len(label) > 0 /\ AllKeysInLabel)

AllKeysInTooltip ==
  \A i \in 1..Len(keyword.tokens) : FoundIn(tooltip.tokens, keyword.tokens[i])

\* C10: tooltip fallback.  The tooltip is consulted only when the label did
\* not match, the first key token has more than 2 characters and the action
\* has a tooltip with a token; the action then matches iff every key token is
\* a prefix of a tooltip or label token or alternate; the section is 4 when
\* all key tokens were found in the tooltip and 5 otherwise, and 5 only with
\* a key token found in the tooltip and another found only in the label.
C10_TooltipFallback ==
  (Matched /\ ~keyword.is_null) =>
    /\ match.tooltip_used =>
         /\ ~LabelMatched
         /\ Len(keyword.tokens) > 0
         /\ Len(keyword.tokens[1]) > 2
         /\ ~tooltip.is_null
         /\ Len(tooltip.tokens) > 0
    /\ match.section \in {4, 5} => match.tooltip_used
    /\ match.tooltip_used =>
         (match.matched <=>
            \A i \in 1..Len(keyword.tokens) :
               \/ FoundIn(tooltip.tokens, keyword.tokens[i])
               \/ FoundIn(label, keyword.tokens[i]))
    /\ (match.tooltip_used /\ match.matched /\ match.section_given) =>
         match.section = IF AllKeysInTooltip THEN 4 ELSE 5
    /\ match.section = 5 =>
         /\ \E i \in 1..Len(keyword.tokens) :
              FoundIn(tooltip.tokens, keyword.tokens[i])
         /\ \E i \in 1..Len(keyword.tokens) :
              /\ ~FoundIn(tooltip.tokens, keyword.tokens[i])
              /\ FoundIn(label, keyword.tokens[i])

\* a mixed match: one key token from the tooltip, one from the label only
C10_Witness ==
  /\ Matched /\ ~keyword.is_null
  /\ match.tooltip_used /\ match.matched /\ match.section = 5

\* C11: a NULL keyword means any action matches.  With keyword == NULL the
\* matcher returns TRUE whatever the label and the tooltip are, writes 0 to
\* the section when a location is given, and consults neither text.
C11_NullKeywordMatchesAll ==
  (Matched /\ keyword.is_null) =>
    /\ match.matched = TRUE
    /\ match.section = (IF match.section_given THEN 0 ELSE -1)
    /\ ~match.tooltip_used

\* a NULL keyword matched an action whose label and tooltip have tokens, and
\* the section location was given
C11_Witness ==
  /\ Matched /\ keyword.is_null
  /\ Len(label) > 0
  /\ ~tooltip.is_null /\ Len(tooltip.tokens) > 0
  /\ match.section_given
  /\ match.matched = TRUE /\ match.section = 0

(***************************************************************************)
(* SpecProps: the default duplicate, equal and copy methods on two objects *)
(* of a class with NProps properties of every flag combination.            *)
(***************************************************************************)
\* the flags handed to gimp_config_copy
CopyFlags == SUBSET {"CONSTRUCT_ONLY", "AGGREGATE"}

PropObjects(types) ==
  {Object(TRUE, t, "default", TRUE, TRUE, p) :
     t \in types, p \in [1..NProps -> Values]}

InitProps ==
  /\ property_specs \in [1..NProps -> ParamSpecs]
  /\ objA \in PropObjects({1})
  /\ objB \in PropObjects(1..NTypes)
  /\ propCall = NoCall
  /\ propResult = NoResult
  /\ IOIdleVars
  /\ SearchIdle
  /\ DialogIdle
  /\ IfaceIdle

\* Every call is made on every pair of objects, as the first call of a
\* behaviour; gimp_config_copy may then be called again with the same flags.
Fresh == propCall.fn = "none"

\* objB becomes the duplicate of objA
PropsDuplicate ==
  /\ Fresh
  /\ LET made == gimp_config_duplicate(objA)
     IN /\ objA' = made.config
        /\ objB' = made.ret
  /\ propCall' = [fn |-> "gimp_config_duplicate", flags |-> {}]
  /\ propResult' = [ret |-> "dup"]
  /\ UNCHANGED <<property_specs, ioVars, searchVars, dialogVars, ifaceVars>>

PropsIsEqualTo ==
  /\ Fresh
  /\ propCall' = [fn |-> "gimp_config_is_equal_to", flags |-> {}]
  /\ propResult' = [ret |-> gimp_config_is_equal_to(objA, objB).ret]
  /\ UNCHANGED <<property_specs, objA, objB, ioVars, searchVars, dialogVars, ifaceVars>>

PropsCopy ==
  \E flags \in CopyFlags :
    LET copied == gimp_config_copy(objA, objB, flags)
    IN /\ Fresh \/ (propCall.fn = "gimp_config_copy" /\ propCall.flags = flags)
       /\ objA' = copied.src
       /\ objB' = copied.dest
       /\ propCall' = [fn |-> "gimp_config_copy", flags |-> flags]
       /\ propResult' = [ret |-> copied.ret]
       /\ UNCHANGED <<property_specs, ioVars, searchVars, dialogVars, ifaceVars>>

NextProps ==
  \/ PropsDuplicate
  \/ PropsIsEqualTo
  \/ PropsCopy

SpecProps == InitProps /\ [][NextProps]_vars

(***************************************************************************)
(* Properties of the default duplicate, equal and copy (SpecProps).        *)
(***************************************************************************)
Props == 1..NProps

HasFlags(i, flags) == flags \subseteq property_specs[i].flags

\* the steps that are a call of the named function
DuplicateStep == Fresh /\ propCall'.fn = "gimp_config_duplicate"

CopyStep == propCall'.fn = "gimp_config_copy"

\* every readable property of the class is writable too: the object's
\* state is what its read/write properties hold
DefinedByReadWriteProps ==
  \A i \in Props : HasFlags(i, {"READABLE"}) => HasFlags(i, {"WRITABLE"})

\* C3: gimp_config_duplicate copies all object properties: for an object
\* completely defined by its readable and writable properties the duplicate
\* is equal to the original under gimp_config_is_equal_to, construct-only
\* properties included, and the original is left as it was.
C3_DuplicateIsEqual ==
  [][DuplicateStep =>
       /\ objA' = objA
       /\ DefinedByReadWriteProps => gimp_config_is_equal_to(objA', objB').ret
       /\ \A i \in Props :
            HasFlags(i, {"READABLE", "WRITABLE", "CONSTRUCT_ONLY"}) =>
              objB'.props[i] = objA.props[i]]_vars

\* a duplicate made of an object holding a value in a construct-only
\* property and another in an ordinary read/write property
C3_Witness ==
  /\ propCall.fn = "gimp_config_duplicate"
  /\ DefinedByReadWriteProps
  /\ \E i, j \in Props :
       /\ HasFlags(i, {"READABLE", "WRITABLE", "CONSTRUCT_ONLY"})
       /\ HasFlags(j, {"READABLE", "WRITABLE"})
       /\ ~HasFlags(j, {"CONSTRUCT_ONLY"})
       /\ objA.props[i] # 0 /\ objA.props[j] # 0
       /\ objB.props[i] = objA.props[i] /\ objB.props[j] = objA.props[j]

\* the values of property i compare equal in a and b: the same value, or an
\* aggregate of GimpConfig objects that are equal themselves
PropEqual(a, b, i) ==
  \/ a.props[i] = b.props[i]
  \/ /\ HasFlags(i, {"AGGREGATE"})
     /\ property_specs[i].kind = "config"
     /\ gimp_config_is_equal_to(g_value_get_object(a.props[i]),
                                g_value_get_object(b.props[i])).ret

\* C4: gimp_config_is_equal_to is FALSE for objects of different types; for
\* objects of one type it is TRUE exactly when every readable property
\* compares equal, an aggregate GimpConfig property counting as equal iff the
\* held objects are equal; properties that are not readable play no part.
C4_DefaultEqual ==
  propCall.fn = "gimp_config_is_equal_to" =>
    (propResult.ret =
       (/\ objA.type = objB.type
        /\ \A i \in Props : HasFlags(i, {"READABLE"}) => PropEqual(objA, objB, i)))

\* objects found equal although an unreadable property differs and an
\* aggregate property holds two distinct objects
C4_Witness ==
  /\ propCall.fn = "gimp_config_is_equal_to"
  /\ propResult.ret = TRUE
  /\ \E i, j \in Props :
       /\ ~HasFlags(i, {"READABLE"})
       /\ objA.props[i] # objB.props[i]
       /\ HasFlags(j, {"READABLE", "AGGREGATE"})
       /\ property_specs[j].kind = "config"
       /\ objA.props[j] # objB.props[j]

\* property i is one gimp_config_copy looks at: readable, writable and
\* carrying all of flags
Selected(i, flags) == HasFlags(i, flags \cup {"READABLE", "WRITABLE"})

Differs(i) == objA.props[i] # objB.props[i]

C6_CopyFrame ==
  [][CopyStep =>
       /\ objA' = objA
       /\ \A i \in Props :
            (\/ HasFlags(i, {"CONSTRUCT_ONLY"})
             \/ ~HasFlags(i, {"READABLE", "WRITABLE"})
             \/ ~HasFlags(i, propCall'.flags)) =>
              objB'.props[i] = objB.props[i]
       /\ [objB' EXCEPT !.props = objB.props] = objB]_vars

\* a copy that changed dest and left a differing property of dest alone
C6_Witness ==
  /\ propCall.fn = "gimp_config_copy"
  /\ propResult.ret = TRUE
  /\ \E i \in Props :
       /\ \/ HasFlags(i, {"CONSTRUCT_ONLY"})
          \/ ~HasFlags(i, {"READABLE", "WRITABLE"})
          \/ ~HasFlags(i, propCall.flags)
       /\ objA.props[i] # objB.props[i]

(***************************************************************************)
(* The results list of the action search dialog.  gimp holds what the      *)
(* dialog reads: the action groups of the UI manager, the actions with     *)
(* their label, tooltip and sensitivity, the names the action history      *)
(* excludes, and the search_show_unavailable setting.  A row of the list   *)
(* is the name of its action and its section.                              *)
(***************************************************************************)
MaxHistory == 2   \* actions returned by the history search

\* the names of the actions, in the order gimp_action_name_compare sorts them
ActionNames == <<"edit-undo", "plug-in-repeat", "plug-in-reshow">>

Names == {ActionNames[k] : k \in 1..Len(ActionNames)}

gimp_action_name_compare(a, b) ==
  LET index(name) == CHOOSE k \in 1..Len(ActionNames) : ActionNames[k] = name
  IN index(a) - index(b)

RECURSIVE g_list_sort(_)
\* the actions of a group, sorted by name
g_list_sort(actions) ==
  IF actions = {} THEN <<>>
  ELSE LET first == CHOOSE a \in actions :
                      \A b \in actions : gimp_action_name_compare(a, b) <= 0
       IN <<first>> \o g_list_sort(actions \ {first})

\* whether the action history leaves the action out: a predicate on names
gimp_action_history_excluded_action(g, name) == name \in g.excluded

\* mutant: a row is put before the first row of its own section or a later one
insert_position_before_own_section(rows, section) ==
  LET later == {k \in 1..Len(rows) : rows[k].section >= section}
  IN IF later = {} THEN Len(rows) + 1
     ELSE CHOOSE k \in later : \A m \in later : k <= m

\* where a new row goes: before the first row of a later section, or at the
\* end when there is none (Len(rows) + 1)
insert_position(rows, section) ==
  LET later == {k \in 1..Len(rows) : rows[k].section > section}
  IN IF later = {} THEN Len(rows) + 1
     ELSE CHOOSE k \in later : \A m \in later : k <= m

\* an action without a label gets no row
action_search_add_to_results_list(action, rows, section) ==
  IF action.label.is_blank THEN rows
  ELSE LET k   == insert_position(rows, section)
           row == [name |-> action.name, section |-> section]
       IN SubSeq(rows, 1, k - 1) \o <<row>> \o SubSeq(rows, k, Len(rows))

RECURSIVE add_history_actions(_, _, _)
\* the matching actions of the history, each added with section 0
add_history_actions(g, list, rows) ==
  IF list = <<>> THEN rows
  ELSE add_history_actions(g, Tail(list),
         action_search_add_to_results_list(g.actions[Head(list)], rows, 0))

\* mutant: every non-historized action is passed over, the two plug-in
\* actions included
scan_skips_every_excluded(g, name) == gimp_action_history_excluded_action(g, name)

\* the scan passes over the non-historized actions, except plug-in-repeat
\* and plug-in-reshow
scan_skips(g, name) ==
  /\ gimp_action_history_excluded_action(g, name)
  /\ name # "plug-in-repeat"
  /\ name # "plug-in-reshow"

RECURSIVE scan_actions(_, _, _, _, _)
\* the loop over the sorted actions of one group
scan_actions(g, actions, kw, history, rows) ==
  IF actions = <<>> THEN rows
  ELSE LET name   == Head(actions)
           action == g.actions[name]
           found  == action_search_match_keyword(action.label.tokens,
                                                 action.tooltip, kw, TRUE)
           is_redundant == \E k \in 1..Len(history) : history[k] = name
           listed == /\ ~scan_skips(g, name)
                     /\ action.sensitive \/ g.search_show_unavailable
                     /\ found.matched
                     /\ ~is_redundant
       IN scan_actions(g, Tail(actions), kw, history,
            IF listed
              THEN action_search_add_to_results_list(action, rows, found.section)
              ELSE rows)

RECURSIVE scan_groups(_, _, _, _, _)
\* the loop over the action groups of the UI manager
scan_groups(g, groups, kw, history, rows) ==
  IF groups = <<>> THEN rows
  ELSE scan_groups(g, Tail(groups), kw, history,
         scan_actions(g, g_list_sort(Head(groups)), kw, history, rows))

\* history is what gimp_action_history_search returned for the keyword
action_search_history_and_actions(g, kw, history, rows) ==
  IF ~kw.is_null /\ kw.is_empty THEN rows
  ELSE scan_groups(g, g.groups, kw, history,
         add_history_actions(g, history, rows))

(***************************************************************************)
(* SpecDialog: key releases in the search entry, over every sensitivity,   *)
(* exclusion, label and history within the bounds.                         *)
(***************************************************************************)
KeyA  == <<"a", "a">>
KeyAA == <<"a", "a", "a">>
KeyAc == <<"aacute">>

\* an action has no label, the label "aa", or the label "aacute aa"
DialogLabels ==
  {[is_blank |-> TRUE,  tokens |-> <<>>],
   [is_blank |-> FALSE, tokens |-> <<KeyA>>],
   [is_blank |-> FALSE, tokens |-> <<KeyAc, KeyA>>]}

\* the actions have no tooltip, or all the tooltip "aaa"
DialogTooltips ==
  {[is_null |-> TRUE, tokens |-> <<>>], [is_null |-> FALSE, tokens |-> <<KeyAA>>]}

\* what is left of the entry text once stripped, as its tokens; the text
\* itself is not empty
DialogKeywords ==
  {[is_null |-> FALSE, is_empty |-> FALSE, tokens |-> t] :
     t \in {<<>>, <<KeyA>>, <<KeyA, KeyAc>>, <<KeyAA>>, <<KeyAA, KeyAc>>}}

DialogGroups ==
  {<<{"edit-undo"}, {"plug-in-repeat", "plug-in-reshow"}>>,
   <<{"plug-in-repeat", "plug-in-reshow"}, {"edit-undo"}>>}

DialogGimps ==
  {[groups   |-> groups,
    actions  |-> [name \in Names |->
                    [name |-> name, label |-> labels[name],
                     tooltip |-> action_tooltip,
                     sensitive |-> name \in sensitive]],
    excluded |-> excluded,
    search_show_unavailable |-> show] :
     groups \in DialogGroups, labels \in [Names -> DialogLabels],
     action_tooltip \in DialogTooltips, sensitive \in SUBSET Names,
     excluded \in SUBSET Names, show \in BOOLEAN}

\* the lists the history search can return: distinct actions, in any order
Histories ==
  {h \in UNION {[1..n -> Names] : n \in 0..MaxHistory} :
     \A i, k \in 1..Len(h) : i # k => h[i] # h[k]}

InitDialog ==
  /\ gimp \in DialogGimps
  /\ history_actions = <<>>
  /\ results = [shown |-> FALSE, rows |-> <<>>]
  /\ IOIdleVars
  /\ PropsIdle
  /\ SearchIdle
  /\ IfaceIdle

\* a key release with text in the entry: the list is cleared, shown and
\* filled for the text
EntryKeyReleased ==
  /\ ~results.shown
  /\ \E entry_text \in DialogKeywords, history \in Histories :
       /\ keyword' = entry_text
       /\ history_actions' = history
       /\ results' = [shown |-> TRUE,
                      rows  |-> action_search_history_and_actions(
                                  gimp, entry_text, history, <<>>)]
  /\ UNCHANGED <<gimp, label, tooltip, match, ioVars, propVars, ifaceVars>>

\* the Down key with an empty entry: the list is cleared, shown and filled
\* for a NULL keyword; with the list already shown, the history is the same
EntryKeyDown ==
  /\ \E history \in Histories :
       /\ results.shown => history = history_actions
       /\ keyword' = [is_null |-> TRUE, is_empty |-> FALSE, tokens |-> <<>>]
       /\ history_actions' = history
       /\ results' = [shown |-> TRUE,
                      rows  |-> action_search_history_and_actions(
                                  gimp, keyword', history, <<>>)]
  /\ UNCHANGED <<gimp, label, tooltip, match, ioVars, propVars, ifaceVars>>

NextDialog ==
  \/ EntryKeyReleased
  \/ EntryKeyDown

SpecDialog == InitDialog /\ [][NextDialog]_vars

(***************************************************************************)
(* Properties of the results list (SpecDialog).                            *)
(***************************************************************************)
\* the history actions that get a row (those with a label), in the order of
\* the history search
HistoryRowNames ==
  LET has_label(name) == ~gimp.actions[name].label.is_blank
  IN SelectSeq(history_actions, has_label)

HistoryNames == {history_actions[k] : k \in 1..Len(history_actions)}

\* the rows below the history rows
ScanRows == SubSeq(results.rows, Len(HistoryRowNames) + 1, Len(results.rows))

\* C12: history rows are on top.  Once the cleared list is filled, its
\* first rows are the rows of the history actions, in the order the history
\* search returned them, and every row below them comes from the scan of the
\* action groups, whatever its section is.
C12_HistoryRowsFirst ==
  results.shown =>
    /\ Len(results.rows) >= Len(HistoryRowNames)
    /\ \A k \in 1..Len(HistoryRowNames) :
         /\ results.rows[k].name = HistoryRowNames[k]
         /\ results.rows[k].section = 0
    /\ \A k \in 1..Len(ScanRows) : ScanRows[k].name \notin HistoryNames

\* two history rows on top of a scanned row that the NULL keyword put in
\* section 0 as well
C12_Witness ==
  /\ results.shown
  /\ keyword.is_null
  /\ Len(HistoryRowNames) = 2
  /\ Len(results.rows) = 3
  /\ results.rows[3].section = 0
  /\ results.rows[3].name \notin HistoryNames

\* a history row on top of two scanned rows of which the one scanned last,
\* of an earlier section, was put before the other
C12_WitnessSections ==
  /\ results.shown
  /\ ~keyword.is_null
  /\ history_actions = <<"edit-undo">>
  /\ Len(results.rows) = 3
  /\ results.rows[1].name = "edit-undo"
  /\ results.rows[2].name = "plug-in-reshow"
  /\ results.rows[3].name = "plug-in-repeat"
  /\ results.rows[2].section < results.rows[3].section

PlugInNames == {"plug-in-repeat", "plug-in-reshow"}

ScanRowNames == {ScanRows[k].name : k \in 1..Len(ScanRows)}

Listed(name) == \E k \in 1..Len(results.rows) : results.rows[k].name = name

InAGroup(name) == \E k \in 1..Len(gimp.groups) : name \in gimp.groups[k]

MatchesKeyword(name) ==
  action_search_match_keyword(gimp.actions[name].label.tokens,
                              gimp.actions[name].tooltip, keyword, TRUE).matched

\* the scan lists no non-historized action but plug-in-repeat and plug-in-reshow
NoExcludedScanRow ==
  \A name \in ScanRowNames :
    gimp_action_history_excluded_action(gimp, name) => name \in PlugInNames

\* C13 as stated: the scan lists no non-historized action, except
\* plug-in-repeat and plug-in-reshow, which are listed when they match the
\* keyword.
C13_Original_ExcludedNotListed ==
  results.shown =>
    /\ NoExcludedScanRow
    /\ \A name \in PlugInNames :
         (/\ gimp_action_history_excluded_action(gimp, name)
          /\ InAGroup(name)
          /\ MatchesKeyword(name)) => Listed(name)

\* C13, amended: the scan lists no non-historized action, except
\* plug-in-repeat and plug-in-reshow, which are listed like any other action:
\* when they match the keyword, are sensitive or search_show_unavailable is
\* set, and have a label.
C13_ExcludedNotListed ==
  results.shown =>
    /\ NoExcludedScanRow
    /\ \A name \in PlugInNames :
         (/\ gimp_action_history_excluded_action(gimp, name)
          /\ InAGroup(name)
          /\ MatchesKeyword(name)
          /\ gimp.actions[name].sensitive \/ gimp.search_show_unavailable
          /\ ~gimp.actions[name].label.is_blank) => Listed(name)

\* the three actions are non-historized, sensitive and match the keyword,
\* none is in the history: the scan lists the two plug-in actions only
C13_Witness ==
  /\ results.shown
  /\ ~keyword.is_null
  /\ history_actions = <<>>
  /\ \A name \in Names :
       /\ gimp_action_history_excluded_action(gimp, name)
       /\ gimp.actions[name].sensitive
       /\ ~gimp.actions[name].label.is_blank
       /\ MatchesKeyword(name)
  /\ ScanRowNames = PlugInNames

(***************************************************************************)
(* SpecIface: classes get their GimpConfigInterface vtable one after the   *)
(* other.  The type system allocates the vtable, zeroed or as a copy of    *)
(* the parent class's vtable, runs gimp_config_iface_base_init on it and   *)
(* then the interface_init function of the class, which installs the       *)
(* methods the class implements.                                           *)
(***************************************************************************)
InitIface ==
  /\ IfaceIdle
  /\ IOIdleVars
  /\ PropsIdle
  /\ SearchIdle
  /\ DialogIdle

\* the vtable of a class whose parent implements the interface starts as a
\* copy of the parent's vtable, any other vtable starts zeroed
AllocateVTable ==
  /\ iface_step = "idle"
  /\ n_classes < MaxClasses
  /\ \E inherits \in BOOLEAN :
       /\ inherits => n_classes > 0
       /\ config_iface' = IF inherits THEN parent_iface ELSE NullVTable
  /\ iface_step' = "allocated"
  /\ UNCHANGED <<parent_iface, n_classes, ioVars, propVars, searchVars, dialogVars>>

BaseInit ==
  /\ iface_step = "allocated"
  /\ config_iface' = gimp_config_iface_base_init(config_iface)
  /\ iface_step' = "base_init"
  /\ UNCHANGED <<parent_iface, n_classes, ioVars, propVars, searchVars, dialogVars>>

\* the class installs functions of its own for the methods it implements
InterfaceInit ==
  /\ iface_step = "base_init"
  /\ \E implemented \in SUBSET (Methods \cup PropertyMethods) :
       LET own == ClassNames[n_classes + 1]
           initialised == [method \in Methods \cup PropertyMethods |->
                             IF method \in implemented THEN own
                             ELSE config_iface[method]]
       IN /\ config_iface' = initialised
          /\ parent_iface' = initialised
  /\ n_classes' = n_classes + 1
  /\ iface_step' = "idle"
  /\ UNCHANGED <<ioVars, propVars, searchVars, dialogVars>>

NextIface ==
  \/ AllocateVTable
  \/ BaseInit
  \/ InterfaceInit

SpecIface == InitIface /\ [][NextIface]_vars

(***************************************************************************)
(* Properties of gimp_config_iface_base_init (SpecIface).                  *)
(***************************************************************************)
\* C15: after gimp_config_iface_base_init has run on a vtable,
\* serialize_property and deserialize_property are NULL whatever the vtable
\* held, and the six methods are all set; the six defaults are installed,
\* all together, exactly when the vtable came without a serialize method,
\* and otherwise the six methods are the ones that were there.
C15_BaseInit ==
  [][(iface_step = "allocated" /\ iface_step' = "base_init") =>
       /\ \A method \in PropertyMethods : config_iface'[method] = "NULL"
       /\ \A method \in Methods : config_iface'[method] # "NULL"
       /\ IF config_iface["serialize"] = "NULL"
            THEN \A method \in Methods : config_iface'[method] = Defaults[method]
            ELSE \A method \in Methods : config_iface'[method] = config_iface[method]
     ]_vars

\* base_init has run on the vtable of a class whose parent installed its own
\* serialize and serialize_property and kept the default copy: the methods
\* are inherited, the property method is not
C15_Witness ==
  /\ iface_step = "base_init"
  /\ n_classes = 1
  /\ parent_iface["serialize"] = "class1"
  /\ parent_iface["serialize_property"] = "class1"
  /\ parent_iface["copy"] = Defaults["copy"]
  /\ config_iface["serialize"] = "class1"
  /\ config_iface["copy"] = Defaults["copy"]
  /\ config_iface["serialize_property"] = "NULL"

====
